---- MODULE Spec2Model ----
(***************************************************************************)
(* Model of scripts/fetch.py, the MIL-Ticker data builder.                  *)
(*                                                                          *)
(* Numbers.  Every Python number is an integer count of thousandths: 80.0   *)
(* is 80000, 84.004 is 84004, and a percentage of 11.11 is 11110.  A value  *)
(* rounded by r2 is therefore a multiple of 10.  A Python value is a tagged *)
(* record: None, Num(v), Str (a non-empty non-numeric string), Empty (the   *)
(* empty string) or NaN (the float nan).                                    *)
(*                                                                          *)
(* State.  One run of main() is the steps Load, FetchWTI, FetchBrent,       *)
(* FetchHrc, FetchCopper, FetchAluminum, Write; the script is run again and *)
(* again on the file the previous run left.  Of data.json the model keeps   *)
(* what load_previous_prices reads: the name and price of each entry.  obs, *)
(* outage and lastOutage are history variables: they record what the        *)
(* adapters returned, nothing reads them but the properties.                *)
(*                                                                          *)
(* Helpers.  SpecPct, SpecR2 and SpecTe call one helper (pct, r2, the       *)
(* TradingEconomics branch of fetch_hrc) on arguments drawn from bounded    *)
(* sets; call holds the arguments and what the helper returned.             *)
(***************************************************************************)
EXTENDS Integers, Sequences, FiniteSets, TLC

VARIABLES
    file,         \* contents of public/data.json (DATA_PATH)
    pc,           \* position of main(): which call comes next
    prev_prices,  \* main's prev_prices: the dict load_previous_prices returned
    commodities,  \* main's commodities list, as built so far
    run,          \* number of invocations of the script that wrote a snapshot
    obs,          \* what the adapters returned to the last fetch_* step
    outage,       \* every adapter call of this run so far returned absence
    lastOutage,   \* the last run that wrote a snapshot was such a total outage
    call          \* one helper called on its own: arguments and returned values

vars == <<file, pc, prev_prices, commodities, run, obs, outage, lastOutage, call>>

\* Number of invocations of the script that are explored.
MaxRuns == 2
\* Longest daily-candle history (number of rows of hist["Close"]).
MaxCloses == 2
\* Longest row list of the TradingEconomics answer.
MaxRows == 2

----------------------------------------------------------------------------
\* Python values

None == [t |-> "none", v |-> 0]
Str  == [t |-> "str",  v |-> 0]
Empty == [t |-> "empty", v |-> 0]
NaN  == [t |-> "nan",  v |-> 0]
Num(v) == [t |-> "num", v |-> v]

\* isinstance(x, (int, float)), and float(x) does not raise: x is a float,
\* nan included.
IsNum(x) == x.t \in {"num", "nan"}

\* Python truthiness of a value: None, 0, 0.0 and "" are falsy; nan and a
\* non-empty string are truthy.
Truthy(x) == CASE x.t = "none"  -> FALSE
               [] x.t = "empty" -> FALSE
               [] x.t = "num"   -> x.v # 0
               [] OTHER         -> TRUE

\* Python's `a or b`.
Or(a, b) == IF Truthy(a) THEN a ELSE b

----------------------------------------------------------------------------
\* helpers

\* |n|
Abs(n) == IF n < 0 THEN -n ELSE n

\* Binary floating point.  Num(v) stands for the double nearest to v / 1000.
\* Where a result lies on a decimal half, f"{x:.2f}" rounds the exact binary
\* value of x, so the doubles are computed exactly: a double is m * 2^e with
\* m a 53-bit natural number, and a natural number of up to 150 bits is a
\* sequence of BigLimbs digits in base BigBase, lowest digit first.  The
\* arithmetic is written as functions, whose arguments are values.
BigBase == 32768
BigLimbs == 10
Bigs == [1..BigLimbs -> 0..(BigBase - 1)]
Dbls == [m : Bigs, e : Int]

Pow2[k \in Nat] == IF k = 0 THEN 1 ELSE 2 * Pow2[k - 1]

\* The natural number n < 2^31 as digits.
BigOf[n \in Nat] ==
    <<n % BigBase, (n \div BigBase) % BigBase, n \div (BigBase * BigBase),
      0, 0, 0, 0, 0, 0, 0>>

BigAddFrom[a \in Bigs, b \in Bigs, i \in Nat, carry \in Nat] ==
    IF i > BigLimbs THEN <<>>
    ELSE <<(a[i] + b[i] + carry) % BigBase>>
         \o BigAddFrom[a, b, i + 1, (a[i] + b[i] + carry) \div BigBase]

\* a + b
BigAdd[a \in Bigs, b \in Bigs] == BigAddFrom[a, b, 1, 0]

BigSubFrom[a \in Bigs, b \in Bigs, i \in Nat, borrow \in Nat] ==
    IF i > BigLimbs THEN <<>>
    ELSE IF a[i] - b[i] - borrow < 0
         THEN <<a[i] - b[i] - borrow + BigBase>> \o BigSubFrom[a, b, i + 1, 1]
         ELSE <<a[i] - b[i] - borrow>> \o BigSubFrom[a, b, i + 1, 0]

\* a - b, for a >= b
BigSub[a \in Bigs, b \in Bigs] == BigSubFrom[a, b, 1, 0]

BigMulFrom[a \in Bigs, k \in Nat, i \in Nat, carry \in Nat] ==
    IF i > BigLimbs THEN <<>>
    ELSE <<(a[i] * k + carry) % BigBase>>
         \o BigMulFrom[a, k, i + 1, (a[i] * k + carry) \div BigBase]

\* a * k, for k <= BigBase
BigMul[a \in Bigs, k \in Nat] == BigMulFrom[a, k, 1, 0]

BigCmpFrom[a \in Bigs, b \in Bigs, i \in Nat] ==
    IF i = 0 THEN 0
    ELSE IF a[i] > b[i] THEN 1
    ELSE IF a[i] < b[i] THEN -1
    ELSE BigCmpFrom[a, b, i - 1]

\* The sign of a - b.
BigCmp[a \in Bigs, b \in Bigs] == BigCmpFrom[a, b, BigLimbs]

\* a with its digits moved up n places.
BigShiftLimbs[a \in Bigs, n \in Nat, i \in Nat] ==
    IF i > BigLimbs THEN <<>>
    ELSE <<IF i <= n THEN 0 ELSE a[i - n]>> \o BigShiftLimbs[a, n, i + 1]

\* a * 2^k
BigShl[a \in Bigs, k \in Nat] == BigMul[BigShiftLimbs[a, k \div 15, 1], Pow2[k % 15]]

\* A division in progress: the value n * 2^e / d.
Ratios == [n : Bigs, d : Bigs, e : Int]

\* n * 2^e / d brought to 2^52 <= n / d < 2^53.
ScaleUp[x \in Ratios] ==
    IF BigCmp[x.n, BigShl[x.d, 52]] < 0
    THEN ScaleUp[[n |-> BigAdd[x.n, x.n], d |-> x.d, e |-> x.e - 1]]
    ELSE x

ScaleDown[x \in Ratios] ==
    IF BigCmp[x.n, BigShl[x.d, 53]] >= 0
    THEN ScaleDown[[n |-> x.n, d |-> BigAdd[x.d, x.d], e |-> x.e + 1]]
    ELSE x

\* Quotient q and remainder n of the division by d, bits i..0 of the
\* quotient being still to find: bit i is set when d * 2^i fits in n.
Divisions == [n : Bigs, d : Bigs, e : Int, q : Bigs]

DivFrom[x \in Divisions, i \in Int] ==
    IF i < 0 THEN x
    ELSE IF BigCmp[x.n, BigShl[x.d, i]] >= 0
         THEN DivFrom[[x EXCEPT !.n = BigSub[x.n, BigShl[x.d, i]],
                                !.q = BigAdd[BigAdd[x.q, x.q], BigOf[1]]], i - 1]
         ELSE DivFrom[[x EXCEPT !.q = BigAdd[x.q, x.q]], i - 1]

\* The quotient rounded to the nearest integer, ties to the even one.
RoundQuotient[x \in Divisions] ==
    IF \/ BigCmp[BigAdd[x.n, x.n], x.d] > 0
       \/ (BigCmp[BigAdd[x.n, x.n], x.d] = 0 /\ x.q[1] % 2 = 1)
    THEN [m |-> BigAdd[x.q, BigOf[1]], e |-> x.e]
    ELSE [m |-> x.q, e |-> x.e]

Dividend[x \in Ratios] == [n |-> x.n, d |-> x.d, e |-> x.e, q |-> BigOf[0]]

\* The double nearest to n * 2^e / d (n, d > 0).
RoundToDouble[x \in Ratios] ==
    RoundQuotient[DivFrom[Dividend[ScaleDown[ScaleUp[x]]], 52]]

\* float(x) for the decimal |v| / 1000
DoubleOf[v \in Int] ==
    IF v = 0 THEN [m |-> BigOf[0], e |-> 0]
    ELSE RoundToDouble[[n |-> BigOf[Abs(v)], d |-> BigOf[1000], e |-> 0]]

\* The sign of x - h / 200, for a double x >= 0 and the decimal half h / 200.
CmpHalf[x \in Dbls, h \in Nat] ==
    IF x.e >= 0 THEN BigCmp[BigShl[BigMul[x.m, 200], x.e], BigOf[h]]
    ELSE BigCmp[BigMul[x.m, 200], BigShl[BigOf[h], -x.e]]

\* What f"{x:.2f}" prints for a value between the hundredths q and q + 1
\* whose comparison with their midpoint is c: the nearer one, and on an
\* exact tie the even one.
RoundTie[q \in Nat, c \in Int] ==
    IF c > 0 THEN q + 1
    ELSE IF c < 0 THEN q
    ELSE IF q % 2 = 0 THEN q ELSE q + 1

\* f"{float(x):.2f}" for x = v / 1000, in hundredths.
Hundredths[v \in Int] ==
    IF Abs(v) % 10 < 5 THEN (IF v < 0 THEN -(Abs(v) \div 10) ELSE Abs(v) \div 10)
    ELSE IF Abs(v) % 10 > 5
         THEN (IF v < 0 THEN -(Abs(v) \div 10 + 1) ELSE Abs(v) \div 10 + 1)
    ELSE IF v < 0
         THEN -RoundTie[Abs(v) \div 10, CmpHalf[DoubleOf[v], Abs(v) \div 5]]
         ELSE RoundTie[Abs(v) \div 10, CmpHalf[DoubleOf[v], Abs(v) \div 5]]

\* r2 that adds half a hundredth before formatting.
r2_biased(x) == IF x.t = "num" THEN Num(10 * Hundredths[x.v + 5])
                ELSE IF x = NaN THEN NaN
                ELSE None

\* r2(x): float(f"{float(x):.2f}"), None when float(x) raises; float("nan")
\* is formatted as "nan" and read back as itself.
r2(x) == IF x.t = "num" THEN Num(10 * Hundredths[x.v])
         ELSE IF x = NaN THEN NaN
         ELSE None

\* |a - b| for doubles of the same sign, |a| + |b| for doubles of opposite
\* signs, before rounding: the mantissas are brought to the lower exponent.
Aligned[a \in Dbls, b \in Dbls, same \in BOOLEAN, em \in Int] ==
    IF ~same THEN BigAdd[BigShl[a.m, a.e - em], BigShl[b.m, b.e - em]]
    ELSE IF BigCmp[BigShl[a.m, a.e - em], BigShl[b.m, b.e - em]] >= 0
         THEN BigSub[BigShl[a.m, a.e - em], BigShl[b.m, b.e - em]]
         ELSE BigSub[BigShl[b.m, b.e - em], BigShl[a.m, a.e - em]]

\* The magnitude of the double a - b (a # b).
DblSub[a \in Dbls, b \in Dbls, same \in BOOLEAN] ==
    RoundToDouble[[n |-> Aligned[a, b, same, IF a.e < b.e THEN a.e ELSE b.e],
                   d |-> BigOf[1],
                   e |-> IF a.e < b.e THEN a.e ELSE b.e]]

\* The double 100.0 * s
DblTimes100[s \in Dbls] ==
    RoundToDouble[[n |-> BigMul[s.m, 100], d |-> BigOf[1], e |-> s.e]]

\* The double t / b
DblDiv[t \in Dbls, b \in Dbls] ==
    RoundToDouble[[n |-> t.m, d |-> b.m, e |-> t.e - b.e]]

\* The double 100.0 * (float(curr) - float(prev)) / float(prev) for
\* curr = c / 1000 and prev = p / 1000 (c # p, p # 0), as its magnitude.
PercentDouble[c \in Int, p \in Int] ==
    DblDiv[DblTimes100[DblSub[DoubleOf[c], DoubleOf[p], (c < 0) = (p < 0)]],
           DoubleOf[p]]

\* 100.0 * d / p with d = curr - prev, as r2 rounds it, in hundredths.  The
\* quotient is found in two steps of long division so that no intermediate
\* exceeds 32 bits; where it lies on a decimal half, the double the code
\* computes decides.
PercentHundredths(d, p) ==
    LET ad == Abs(d)
        ap == Abs(p)
        q1 == (100 * ad) \div ap
        r1 == (100 * ad) % ap
        q  == 100 * q1 + (100 * r1) \div ap
        r  == (100 * r1) % ap
        k  == IF 2 * r < ap THEN q
              ELSE IF 2 * r > ap THEN q + 1
              ELSE RoundTie[q, CmpHalf[PercentDouble[d + p, p], 2 * q + 1]]
    IN  IF (d < 0) = (p < 0) THEN k ELSE -k

\* pct with the difference taken the other way round.
pct_reversed(curr, prev) ==
    IF prev = None \/ prev = Num(0) THEN Num(0)
    ELSE IF ~IsNum(curr) \/ ~IsNum(prev) THEN Num(0)
    ELSE IF curr = NaN \/ prev = NaN THEN NaN
    ELSE Num(10 * PercentHundredths(prev.v - curr.v, prev.v))

\* pct(curr, prev): 0.0 when prev is None or 0 or when float() raises,
\* else r2(100.0 * (curr - prev) / prev), which is nan when either is nan.
pct(curr, prev) ==
    IF prev = None \/ prev = Num(0) THEN Num(0)
    ELSE IF ~IsNum(curr) \/ ~IsNum(prev) THEN Num(0)
    ELSE IF curr = NaN \/ prev = NaN THEN NaN
    ELSE Num(10 * PercentHundredths(curr.v - prev.v, prev.v))

----------------------------------------------------------------------------
\* The persisted-price store

Names == <<"WTI", "Brent", "HRC Steel", "Copper", "Aluminum">>

\* A JSON null where a commodity name is expected.
NoName == "<null>"

EmptyDict == [n \in {} |-> None]

\* dict.get(name)
Get(d, name) == IF name \in DOMAIN d THEN d[name] ELSE None

\* d[name] = v
Put(d, name, v) == [n \in (DOMAIN d) \cup {name} |-> IF n = name THEN v ELSE d[n]]

\* One element of the "commodities" list of a data.json: a JSON object, of
\* which the keys load_previous_prices reads (name, price) are kept, or some
\* other JSON value (kind "junk").
Entry(name, price) == [kind |-> "dict", name |-> name, price |-> price]
Junk == [kind |-> "junk", name |-> NoName, price |-> None]

\* LoadLoop with the exception swallowed per entry: the entries read before
\* a malformed one are kept.
RECURSIVE LoadLoop_keeps_partial(_, _, _)
LoadLoop_keeps_partial(entries, i, prev) ==
    IF i > Len(entries) THEN [raised |-> FALSE, prev |-> prev]
    ELSE LET c == entries[i] IN
         IF c.kind # "dict" THEN [raised |-> FALSE, prev |-> prev]
         ELSE IF c.name # NoName /\ IsNum(c.price)
              THEN LoadLoop_keeps_partial(entries, i + 1, Put(prev, c.name, c.price))
              ELSE LoadLoop_keeps_partial(entries, i + 1, prev)

\* The loop of load_previous_prices over entries[i..], starting from prev.
\* c.get on an entry that is no object raises: the result is then the
\* exception marker [raised |-> TRUE].
RECURSIVE LoadLoop(_, _, _)
LoadLoop(entries, i, prev) ==
    IF i > Len(entries) THEN [raised |-> FALSE, prev |-> prev]
    ELSE LET c == entries[i] IN
         IF c.kind # "dict" THEN [raised |-> TRUE, prev |-> prev]
         ELSE IF c.name # NoName /\ IsNum(c.price)
              THEN LoadLoop(entries, i + 1, Put(prev, c.name, c.price))
              ELSE LoadLoop(entries, i + 1, prev)

\* load_previous_prices() on the file f.  f.kind is
\*   "missing"     DATA_PATH.exists() is false
\*   "unreadable"  exists() or read_text() raises
\*   "notjson"     json.loads raises
\*   "notobject"   the document is no JSON object: data.get raises
\*   "nokey"       an object without "commodities": the default [] is used
\*   "notlist"     "commodities" is null or a number: the for loop raises
\*   "snapshot"    "commodities" is the list f.commodities
load_previous_prices(f) ==
    CASE f.kind = "missing" -> EmptyDict
      [] f.kind \in {"unreadable", "notjson", "notobject", "notlist"} -> EmptyDict
      [] f.kind = "nokey" -> EmptyDict
      [] OTHER -> LET r == LoadLoop(f.commodities, 1, EmptyDict)
                  IN  IF r.raised THEN EmptyDict ELSE r.prev

File(kind, entries) == [kind |-> kind, commodities |-> entries]

----------------------------------------------------------------------------
\* Yahoo helpers

Symbols == {"CL=F", "BZ=F", "HRC=F", "HG=F", "ALI=F"}

\* The raw prices the Yahoo endpoints may report for a symbol.
Vals(sym) ==
    CASE sym = "CL=F"  -> {80000, 84004}
      [] sym = "BZ=F"  -> {100000}
      [] sym = "HRC=F" -> {812000}
      [] sym = "HG=F"  -> {45000}
      [] sym = "ALI=F" -> {0, 2400000}

NumVals(sym) == {Num(v) : v \in Vals(sym)}

\* Sequences over S of length at most n.
SeqUpTo(S, n) == UNION {[1..k -> S] : k \in 0..n}

\* hist["Close"].dropna().tolist()
DropNa(s) == SelectSeq(s, LAMBDA x : x # NaN)

\* An answer of Ticker.history: it raised, or the Close column.
HistError == [ok |-> FALSE, close |-> <<>>]
Hist(close) == [ok |-> TRUE, close |-> close]

\* yahoo_last_two_closes that returns a single close as a price without a
\* previous close.
yahoo_last_two_closes_partial(hist) ==
    IF ~hist.ok THEN <<None, None>>
    ELSE IF Len(hist.close) = 0 THEN <<None, None>>
    ELSE LET closes == DropNa(hist.close) IN
         IF Len(closes) = 0 THEN <<None, None>>
         ELSE IF Len(closes) = 1 THEN <<r2(closes[1]), None>>
         ELSE <<r2(closes[Len(closes)]), r2(closes[Len(closes) - 1])>>

\* yahoo_last_two_closes, given the answer of Ticker.history
yahoo_last_two_closes(hist) ==
    IF ~hist.ok THEN <<None, None>>
    ELSE IF Len(hist.close) = 0 THEN <<None, None>>
    ELSE LET closes == DropNa(hist.close) IN
         IF Len(closes) < 2 THEN <<None, None>>
         ELSE <<r2(closes[Len(closes)]), r2(closes[Len(closes) - 1])>>

\* Ticker.fast_info: absent (falsy), or a mapping with these keys.
NoFast == [present |-> FALSE, last_price |-> None, regular_market_price |-> None,
           previous_close |-> None, previousClose |-> None]
\* Ticker.info: reading it raised, or a mapping with these keys.
InfoError == [ok |-> FALSE, regularMarketPrice |-> None,
              regularMarketPreviousClose |-> None]

\* yahoo_live_price_and_prev, given fast_info and info
yahoo_live_price_and_prev(fast, info) ==
    LET price1 == IF fast.present
                  THEN Or(fast.last_price, fast.regular_market_price)
                  ELSE None
        prev1  == IF fast.present
                  THEN Or(Or(fast.previous_close, fast.previousClose), None)
                  ELSE None
        needInfo == price1 = None \/ prev1 = None
    IN  IF needInfo /\ ~info.ok THEN <<None, None>>
        ELSE LET price2 == IF needInfo THEN Or(price1, info.regularMarketPrice)
                           ELSE price1
                 prev2  == IF needInfo THEN Or(prev1, info.regularMarketPreviousClose)
                           ELSE prev1
             IN  <<r2(price2), r2(prev2)>>

\* The answers the endpoints may give for a symbol.
Hists(sym) == {HistError} \cup
              {Hist(s) : s \in SeqUpTo(NumVals(sym) \cup {NaN}, MaxCloses)}

Fasts(sym) == {NoFast} \cup
    [present : {TRUE},
     last_price : {None, Str, Empty} \cup NumVals(sym),
     regular_market_price : {None} \cup NumVals(sym),
     previous_close : {None} \cup NumVals(sym),
     previousClose : {None} \cup NumVals(sym)]

Infos(sym) == {InfoError} \cup
    [ok : {TRUE},
     regularMarketPrice : {None} \cup NumVals(sym),
     regularMarketPreviousClose : {None} \cup NumVals(sym)]

\* What the two adapters can return for each symbol.
CandleResults == [sym \in Symbols |-> {yahoo_last_two_closes(h) : h \in Hists(sym)}]
LiveResults == [sym \in Symbols |->
    {yahoo_live_price_and_prev(f, i) : f \in Fasts(sym), i \in Infos(sym)}]

----------------------------------------------------------------------------
\* Resolution of one commodity

\* No adapter call was made.
NotCalled == <<>>

Quote(name, price, p) == [name |-> name, price |-> price, pct |-> p]

WTI_PLACEHOLDER == 83120
BRENT_PLACEHOLDER == 86470
HRC_PLACEHOLDER == 830000
HRC_PLACEHOLDER_PCT == 900
COPPER_PLACEHOLDER == 4120
COPPER_PLACEHOLDER_PCT == -1800
ALUMINUM_PLACEHOLDER == 2421000
ALUMINUM_PLACEHOLDER_PCT == 700

\* `price, prev = candle; if price is None or prev is None: lp, pv = live;
\*  price = price or lp; prev = prev or pv`.  live is read only when the
\* candle result is incomplete.
CallsLive(candle) == candle[1] = None \/ candle[2] = None

Merge(candle, live) ==
    IF CallsLive(candle)
    THEN <<Or(candle[1], live[1]), Or(candle[2], live[2])>>
    ELSE candle

\* fetch_oil without the lookup of the prior saved price (lines 93-94).
fetch_oil_no_store(name, candle, live, pp) ==
    LET m      == Merge(candle, live)
        price1 == IF m[1] = None
                  THEN (IF name = "WTI" THEN Num(WTI_PLACEHOLDER)
                                        ELSE Num(BRENT_PLACEHOLDER))
                  ELSE m[1]
        prev2  == IF m[2] = None THEN price1 ELSE m[2]
    IN  Quote(name, r2(price1), pct(price1, prev2))

\* fetch_oil with the arguments of pct exchanged.
fetch_oil_pct_swapped(name, candle, live, pp) ==
    LET m      == Merge(candle, live)
        prev1  == IF m[1] # None /\ m[2] = None THEN Get(pp, name) ELSE m[2]
        price1 == IF m[1] = None
                  THEN (IF name = "WTI" THEN Num(WTI_PLACEHOLDER)
                                        ELSE Num(BRENT_PLACEHOLDER))
                  ELSE m[1]
        prev2  == IF prev1 = None THEN price1 ELSE prev1
    IN  Quote(name, r2(price1), pct(prev2, price1))

\* fetch_oil that looks up the prior saved price whenever prev is missing,
\* without the test `price is not None` of line 93.
fetch_oil_any_baseline(name, candle, live, pp) ==
    LET m      == Merge(candle, live)
        prev1  == IF m[2] = None THEN Get(pp, name) ELSE m[2]
        price1 == IF m[1] = None
                  THEN (IF name = "WTI" THEN Num(WTI_PLACEHOLDER)
                                        ELSE Num(BRENT_PLACEHOLDER))
                  ELSE m[1]
        prev2  == IF prev1 = None THEN price1 ELSE prev1
    IN  Quote(name, r2(price1), pct(price1, prev2))

\* One iteration of the loop of fetch_oil, for the commodity `name`.
fetch_oil(name, candle, live, pp) ==
    LET m      == Merge(candle, live)
        prev1  == IF m[1] # None /\ m[2] = None THEN Get(pp, name) ELSE m[2]
        price1 == IF m[1] = None
                  THEN (IF name = "WTI" THEN Num(WTI_PLACEHOLDER)
                                        ELSE Num(BRENT_PLACEHOLDER))
                  ELSE m[1]
        prev2  == IF prev1 = None THEN price1 ELSE prev1
    IN  Quote(name, r2(price1), pct(price1, prev2))

\* fetch_metal whose fallback forgets the configured percentage.
fetch_metal_flat_fallback(name, fallback_price, fallback_pct, candle, live, pp) ==
    LET m    == Merge(candle, live)
        last == m[1]
        prev == IF last # None /\ m[2] = None THEN Get(pp, name) ELSE m[2]
    IN  IF last # None /\ prev # None
        THEN Quote(name, r2(last), pct(last, prev))
        ELSE Quote(name, fallback_price, Num(0))

\* fetch_metal without the lookup of the prior saved price (lines 145-146).
fetch_metal_no_store(name, fallback_price, fallback_pct, candle, live, pp) ==
    LET m    == Merge(candle, live)
        last == m[1]
        prev == m[2]
    IN  IF last # None /\ prev # None
        THEN Quote(name, r2(last), pct(last, prev))
        ELSE Quote(name, fallback_price, fallback_pct)

\* fetch_metal(symbol, name, fallback_price, fallback_pct, prev_prices), given
\* what the two adapters return for the symbol.
fetch_metal(name, fallback_price, fallback_pct, candle, live, pp) ==
    LET m    == Merge(candle, live)
        last == m[1]
        prev == IF last # None /\ m[2] = None THEN Get(pp, name) ELSE m[2]
    IN  IF last # None /\ prev # None
        THEN Quote(name, r2(last), pct(last, prev))
        ELSE Quote(name, fallback_price, fallback_pct)

\* One row of the TradingEconomics answer: a JSON object with the keys Name,
\* Last and DailyPercentualChange, or some other JSON value (kind "junk").
Row(name, last, chg) == [kind |-> "dict", Name |-> name, Last |-> last, chg |-> chg]
JunkRow == [kind |-> "junk", Name |-> NoName, Last |-> None, chg |-> None]

\* `"hrc" in name` and `"steel" in name` for name = (row.get("Name") or "").lower()
HasHrc(name) == name \in {"HRC Steel", "US Midwest hrc"}
HasSteel(name) == name \in {"HRC Steel", "Steel"}

\* The answer of requests.get(...).json(): ok is false when the request, the
\* status check or the JSON decoding raised.
TeError == [ok |-> FALSE, rows |-> <<>>]
TeAnswer(rows) == [ok |-> TRUE, rows |-> rows]

\* Outcome of the TradingEconomics branch of fetch_hrc.
TeNone == [found |-> FALSE, price |-> None, pct |-> None]
TeFound(price, p) == [found |-> TRUE, price |-> price, pct |-> p]

\* TeLoop that gives up at the first row named HRC steel when that row has
\* no Last, instead of going on to the next row.
RECURSIVE TeLoop_first_match_only(_, _)
TeLoop_first_match_only(rows, i) ==
    IF i > Len(rows) THEN TeNone
    ELSE LET row == rows[i] IN
         IF row.kind # "dict" THEN TeNone
         ELSE IF HasHrc(row.Name) /\ HasSteel(row.Name)
              THEN (IF row.Last # None
                    THEN TeFound(r2(row.Last), r2(Or(row.chg, Num(0))))
                    ELSE TeNone)
              ELSE TeLoop_first_match_only(rows, i + 1)

\* The `for row in r.json()` loop of fetch_hrc from rows[i] on.  A row that
\* is no object raises; the except clause then leaves the branch.
RECURSIVE TeLoop(_, _)
TeLoop(rows, i) ==
    IF i > Len(rows) THEN TeNone
    ELSE LET row == rows[i] IN
         IF row.kind # "dict" THEN TeNone
         ELSE IF HasHrc(row.Name) /\ HasSteel(row.Name) /\ row.Last # None
              THEN TeFound(r2(row.Last), r2(Or(row.chg, Num(0))))
              ELSE TeLoop(rows, i + 1)

\* The `if key:` branch of fetch_hrc: key is whether TE_KEY is set.
te_branch(key, answer) ==
    IF ~key THEN TeNone
    ELSE IF ~answer.ok THEN TeNone
    ELSE TeLoop(answer.rows, 1)

\* fetch_hrc whose manual fallback forgets the configured percentage.
fetch_hrc_flat_fallback(te, candle, live, pp) ==
    IF te.found THEN Quote("HRC Steel", te.price, te.pct)
    ELSE LET m    == Merge(candle, live)
             last == m[1]
             prev == IF last # None /\ m[2] = None THEN Get(pp, "HRC Steel") ELSE m[2]
         IN  IF last # None /\ prev # None
             THEN Quote("HRC Steel", r2(last), pct(last, prev))
             ELSE Quote("HRC Steel", Num(HRC_PLACEHOLDER), Num(0))

\* fetch_hrc that recomputes the aggregator's percentage against the prior
\* saved price when there is one.
fetch_hrc_te_against_store(te, candle, live, pp) ==
    IF te.found
    THEN Quote("HRC Steel", te.price,
               IF Get(pp, "HRC Steel") = None THEN te.pct
               ELSE pct(te.price, Get(pp, "HRC Steel")))
    ELSE LET m    == Merge(candle, live)
             last == m[1]
             prev == IF last # None /\ m[2] = None THEN Get(pp, "HRC Steel") ELSE m[2]
         IN  IF last # None /\ prev # None
             THEN Quote("HRC Steel", r2(last), pct(last, prev))
             ELSE Quote("HRC Steel", Num(HRC_PLACEHOLDER), Num(HRC_PLACEHOLDER_PCT))

\* fetch_hrc(prev_prices), given the outcome of the TradingEconomics branch
\* and what the two Yahoo adapters return for HRC=F.
fetch_hrc(te, candle, live, pp) ==
    IF te.found THEN Quote("HRC Steel", te.price, te.pct)
    ELSE LET m    == Merge(candle, live)
             last == m[1]
             prev == IF last # None /\ m[2] = None THEN Get(pp, "HRC Steel") ELSE m[2]
         IN  IF last # None /\ prev # None
             THEN Quote("HRC Steel", r2(last), pct(last, prev))
             ELSE Quote("HRC Steel", Num(HRC_PLACEHOLDER), Num(HRC_PLACEHOLDER_PCT))

TeNames == {NoName, "Steel", "US Midwest hrc", "HRC Steel"}
TeLasts == {None, Str, Num(845504)}
TeChgs  == {None, Empty, Num(0), Num(456)}
TeRows  == {JunkRow} \cup {Row(n, l, c) : n \in TeNames, l \in TeLasts, c \in TeChgs}
TeAnswers == {TeError} \cup {TeAnswer(rs) : rs \in SeqUpTo(TeRows, MaxRows)}

\* What the TradingEconomics branch can yield with and without a credential.
TeResults == [key \in BOOLEAN |-> {te_branch(key, a) : a \in TeAnswers}]

----------------------------------------------------------------------------
\* main()

NoObs == [name |-> "", key |-> FALSE, te |-> TeNone,
          candle |-> NotCalled, live |-> NotCalled]

Obs(name, key, te, candle, live) ==
    [name |-> name, key |-> key, te |-> te, candle |-> candle, live |-> live]

\* Every adapter call recorded in o failed or returned absence.
Absent(o) == /\ ~o.te.found
             /\ o.candle = <<None, None>>
             /\ o.live = <<None, None>>

\* No helper is being called on its own.
NoCall == [fn |-> "", args |-> <<>>, ret |-> <<>>]

\* The data.json a run may find before the first run of the script.
InitFiles ==
    {File(k, <<>>) : k \in {"missing", "unreadable", "notjson", "notobject",
                            "nokey", "notlist"}}
    \cup {File("snapshot", es) : es \in {
            <<Junk>>,
            <<Entry("WTI", Num(80000)), Junk>>,
            <<Entry("WTI", Str)>>,
            <<Entry("WTI", NaN)>>,
            <<Entry(NoName, Num(80000))>>,
            <<Entry("WTI", Num(80000)), Entry("Copper", Str)>> }}

Init ==
    /\ file \in InitFiles
    /\ pc = "load"
    /\ prev_prices = EmptyDict
    /\ commodities = <<>>
    /\ run = 0
    /\ obs = NoObs
    /\ outage = TRUE
    /\ lastOutage = FALSE
    /\ call = NoCall

\* main, line 182: prev_prices = load_previous_prices(); commodities = []
Load ==
    /\ pc = "load"
    /\ run < MaxRuns
    /\ prev_prices' = load_previous_prices(file)
    /\ commodities' = <<>>
    /\ obs' = NoObs
    /\ outage' = TRUE
    /\ pc' = "wti"
    /\ UNCHANGED <<file, run, lastOutage, call>>

\* One iteration of the loop of fetch_oil (main, line 186).
OilStep(at, sym, name, next) ==
    /\ pc = at
    /\ \E c \in CandleResults[sym] :
       \E l \in (IF CallsLive(c) THEN LiveResults[sym] ELSE {NotCalled}) :
          /\ commodities' = Append(commodities, fetch_oil(name, c, l, prev_prices))
          /\ obs' = Obs(name, FALSE, TeNone, c, l)
          /\ outage' = (outage /\ Absent(obs'))
    /\ pc' = next
    /\ UNCHANGED <<file, prev_prices, run, lastOutage, call>>

FetchWTI == OilStep("wti", "CL=F", "WTI", "brent")

FetchBrent == OilStep("brent", "BZ=F", "Brent", "hrc")

\* main, line 187: commodities.append(fetch_hrc(prev_prices))
FetchHrc ==
    /\ pc = "hrc"
    /\ \E key \in BOOLEAN : \E te \in TeResults[key] :
       \E c \in (IF te.found THEN {NotCalled} ELSE CandleResults["HRC=F"]) :
       \E l \in (IF ~te.found /\ CallsLive(c) THEN LiveResults["HRC=F"]
                 ELSE {NotCalled}) :
          /\ commodities' = Append(commodities, fetch_hrc(te, c, l, prev_prices))
          /\ obs' = Obs("HRC Steel", key, te, c, l)
          /\ outage' = (outage /\ Absent(obs'))
    /\ pc' = "copper"
    /\ UNCHANGED <<file, prev_prices, run, lastOutage, call>>

\* main, lines 188-189: commodities.append(fetch_metal(...))
MetalStep(at, sym, name, fallback_price, fallback_pct, next) ==
    /\ pc = at
    /\ \E c \in CandleResults[sym] :
       \E l \in (IF CallsLive(c) THEN LiveResults[sym] ELSE {NotCalled}) :
          /\ commodities' = Append(commodities,
                fetch_metal(name, fallback_price, fallback_pct, c, l, prev_prices))
          /\ obs' = Obs(name, FALSE, TeNone, c, l)
          /\ outage' = (outage /\ Absent(obs'))
    /\ pc' = next
    /\ UNCHANGED <<file, prev_prices, run, lastOutage, call>>

FetchCopper ==
    MetalStep("copper", "HG=F", "Copper",
              Num(COPPER_PLACEHOLDER), Num(COPPER_PLACEHOLDER_PCT), "aluminum")

FetchAluminum ==
    MetalStep("aluminum", "ALI=F", "Aluminum",
              Num(ALUMINUM_PLACEHOLDER), Num(ALUMINUM_PLACEHOLDER_PCT), "write")

\* json.dumps of the commodities list, as load_previous_prices will read it
\* back: a price of None is written as null, a number as itself.
ToEntries(cs) == [i \in 1..Len(cs) |-> Entry(cs[i].name, cs[i].price)]

\* main, lines 216-226.  The payload is written to DATA_PATH; or mkdir or the
\* open of write_text raises (public is a regular file, data.json is a
\* directory or may not be opened) and the file stays as it was; or the open
\* of write_text, which truncates or creates data.json, succeeds and the
\* write raises (file size limit, disk full, quota, I/O error), leaving a
\* file that is empty or the beginning of the document, which is no JSON.
\* Either way the process ends; its memory is gone.
Write ==
    /\ pc = "write"
    /\ \/ /\ file' = File("snapshot", ToEntries(commodities))
          /\ run' = run + 1
          /\ lastOutage' = outage
       \/ UNCHANGED <<file, run, lastOutage>>
       \/ /\ file' = File("notjson", <<>>)
          /\ UNCHANGED <<run, lastOutage>>
    /\ pc' = "load"
    /\ prev_prices' = EmptyDict
    /\ commodities' = <<>>
    /\ obs' = NoObs
    /\ outage' = TRUE
    /\ UNCHANGED call

Next ==
    \/ Load
    \/ FetchWTI
    \/ FetchBrent
    \/ FetchHrc
    \/ FetchCopper
    \/ FetchAluminum
    \/ Write

Spec == Init /\ [][Next]_vars

----------------------------------------------------------------------------
\* The helpers called on their own

\* Largest magnitude, in thousandths, of the arguments r2 is called on.
MaxThousandths == 130

\* main() is not running.
Idle ==
    /\ file = File("missing", <<>>)
    /\ pc = "idle"
    /\ prev_prices = EmptyDict
    /\ commodities = <<>>
    /\ run = 0
    /\ obs = NoObs
    /\ outage = TRUE
    /\ lastOutage = FALSE

IdleVars == <<file, pc, prev_prices, commodities, run, obs, outage, lastOutage>>

\* Arguments of pct: prices and stored prices, zero, a negative number, and
\* the values float() rejects.  The percentage of 78.18, and of 84.004,
\* against 80.00 falls on a decimal half.
PctVals == {-5000, 0, 810, 4120, 4127, 45000, 78180, 80000, 83120, 84000,
            84004, 100000}
PctArgs == {None, Str, Empty, NaN} \cup {Num(v) : v \in PctVals}

InitPct ==
    /\ Idle
    /\ \E curr \in PctArgs, prev \in PctArgs :
          call = [fn |-> "pct", args |-> <<curr, prev>>, ret |-> <<>>]

\* pct(curr, prev) returns.
CallPct ==
    /\ call.fn = "pct"
    /\ call.ret = <<>>
    /\ call' = [call EXCEPT !.ret = <<pct(call.args[1], call.args[2])>>]
    /\ UNCHANGED IdleVars

NextPct == CallPct

SpecPct == InitPct /\ [][NextPct]_vars

\* Arguments of r2: every number of thousandths in the range, the decimal
\* halves included, and the values that are no finite number.
R2Vals == -MaxThousandths..MaxThousandths
R2Args == {None, Str, Empty, NaN} \cup {Num(v) : v \in R2Vals}

InitR2 ==
    /\ Idle
    /\ \E x \in R2Args : call = [fn |-> "r2", args |-> <<x>>, ret |-> <<>>]

\* r2 returns: first r2(x), then r2 of what it returned.
CallR2 ==
    /\ call.fn = "r2"
    /\ Len(call.ret) < 2
    /\ LET x == IF call.ret = <<>> THEN call.args[1] ELSE call.ret[1]
       IN  call' = [call EXCEPT !.ret = Append(call.ret, r2(x))]
    /\ UNCHANGED IdleVars

NextR2 == CallR2

SpecR2 == InitR2 /\ [][NextR2]_vars

\* fetch_hrc called on its own: what the Yahoo candle adapter and the store
\* would give if the TradingEconomics branch fell through to them.
HrcCandle == <<Num(812000), Num(812000)>>
HrcStore == Put(EmptyDict, "HRC Steel", Num(HRC_PLACEHOLDER))

InitTe ==
    /\ Idle
    /\ \E key \in BOOLEAN, answer \in TeAnswers :
          call = [fn |-> "fetch_hrc", args |-> <<key, answer>>, ret |-> <<>>]

\* fetch_hrc returns: the outcome of its TradingEconomics branch, and the
\* quote.  The candle adapter is called only when the branch fell through.
CallTe ==
    /\ call.fn = "fetch_hrc"
    /\ call.ret = <<>>
    /\ LET te == te_branch(call.args[1], call.args[2])
           c  == IF te.found THEN NotCalled ELSE HrcCandle
       IN  call' = [call EXCEPT
                      !.ret = <<te, fetch_hrc(te, c, NotCalled, HrcStore)>>]
    /\ UNCHANGED IdleVars

NextTe == CallTe

SpecTe == InitTe /\ [][NextTe]_vars

----------------------------------------------------------------------------
\* Properties

\* A fetch step has just acted: obs holds what the adapters returned to it
\* and the last element of commodities is the quote it resolved.
Resolved == obs.name # ""

LastQuote == commodities[Len(commodities)]

\* The Yahoo chain was entered (no aggregator result was accepted).
YahooPath(o) == o.candle # NotCalled

\* Some adapter yielded a price / no adapter yielded a previous price.
SomePrice(o) == \/ o.candle[1] # None
                \/ (o.live # NotCalled /\ o.live[1] # None)
NoPrevious(o) == /\ o.candle[2] = None
                 /\ (o.live # NotCalled => o.live[2] = None)
AdapterPrice(o) == IF o.candle[1] # None THEN o.candle[1] ELSE o.live[1]

\* The adapters yielded a price and no previous price.
PriceOnly(o) == YahooPath(o) /\ SomePrice(o) /\ NoPrevious(o)

\* The placeholders as the specification documents them.
PlaceholderOf(name) ==
    CASE name = "WTI"       -> Quote("WTI", Num(83120), Num(0))
      [] name = "Brent"     -> Quote("Brent", Num(86470), Num(0))
      [] name = "HRC Steel" -> Quote("HRC Steel", Num(830000), Num(900))
      [] name = "Copper"    -> Quote("Copper", Num(4120), Num(-1800))
      [] name = "Aluminum"  -> Quote("Aluminum", Num(2421000), Num(700))

AllPlaceholders == [i \in 1..5 |-> PlaceholderOf(Names[i])]

\* The prices an adapter can return for a commodity.
RealPrices(name) ==
    CASE name = "WTI"       -> {r2(x) : x \in NumVals("CL=F")}
      [] name = "Brent"     -> {r2(x) : x \in NumVals("BZ=F")}
      [] name = "HRC Steel" -> {r2(x) : x \in NumVals("HRC=F") \cup (TeLasts \ {None})}
      [] name = "Copper"    -> {r2(x) : x \in NumVals("HG=F")}
      [] name = "Aluminum"  -> {r2(x) : x \in NumVals("ALI=F")}

\* C1: the commodities array a run writes has exactly the five entries WTI,
\* Brent, HRC Steel, Copper, Aluminum, in that order, each with a non-null
\* price.
C1_SnapshotComplete ==
    pc = "write" =>
        /\ Len(commodities) = 5
        /\ \A i \in 1..5 : /\ commodities[i].name = Names[i]
                           /\ commodities[i].price # None

\* C2: when an adapter yields a price, no adapter yields a previous price and
\* the store has no entry for the commodity, the quote is the adapter's price
\* with pct 0.0, for each of the five commodities.
C2_NoBaselineKeepsPrice ==
    (Resolved /\ PriceOnly(obs) /\ Get(prev_prices, obs.name) = None)
        => LastQuote = Quote(obs.name, AdapterPrice(obs), Num(0))

\* C3: from the second run on, the store returns for each commodity the price
\* the previous run emitted, and a commodity for which the adapters yield a
\* price and no previous price gets pct = percentChange(price, that emitted
\* price).
C3_StoreIsLastEmitted ==
    (run >= 1 /\ file.kind = "snapshot" /\ pc # "load") =>
        /\ \A i \in 1..5 : Get(prev_prices, Names[i]) = file.commodities[i].price
        /\ (Resolved /\ PriceOnly(obs)) =>
              \E i \in 1..5 :
                 /\ Names[i] = obs.name
                 /\ LastQuote = Quote(obs.name, AdapterPrice(obs),
                                      pct(AdapterPrice(obs), file.commodities[i].price))

\* C4, as claimed: in the run after a total outage, whose snapshot is the
\* file the run finds, a commodity for which a price and no previous price
\* is obtained has its pct computed against a price an adapter returned, not
\* against a placeholder.
C4_BaselineIsRealData ==
    (lastOutage /\ file.kind = "snapshot" /\ Resolved /\ PriceOnly(obs))
        => Get(prev_prices, obs.name) \in RealPrices(obs.name)

\* C4, amended: in the run after a total outage, whose snapshot is the file
\* the run finds, a commodity for which a price and no previous price is
\* obtained has its pct computed against the price the outage run emitted,
\* which is the commodity's placeholder price.
C4_BaselineIsPlaceholder ==
    (lastOutage /\ file.kind = "snapshot" /\ Resolved /\ PriceOnly(obs))
        => LastQuote = Quote(obs.name, AdapterPrice(obs),
                             pct(AdapterPrice(obs), PlaceholderOf(obs.name).price))

C4_Witness ==
    /\ lastOutage /\ file.kind = "snapshot" /\ Resolved /\ PriceOnly(obs)
    /\ obs.name = "Copper"
    /\ LastQuote.pct # Num(0)

\* C5: when every adapter returns absence for a commodity and the store has
\* no entry for it, the quote is the documented placeholder of the commodity.
C5_PlaceholderExact ==
    (Resolved /\ Absent(obs) /\ Get(prev_prices, obs.name) = None)
        => LastQuote = PlaceholderOf(obs.name)

C5_Witness ==
    /\ Resolved /\ Absent(obs) /\ Get(prev_prices, obs.name) = None
    /\ obs.name = "Aluminum"
    /\ LastQuote = Quote("Aluminum", Num(2421000), Num(700))

\* C6: a run in which every adapter call failed or returned absence, with or
\* without a credential and whatever the store holds, is not aborted: it
\* has a next step at every position up to the write, it reaches the write
\* with the five placeholders, and the snapshot it writes is the five
\* placeholders.  (The claim
\* ranges over adapter outcomes, credential and store; a step of Write in
\* which mkdir or write_text raises writes no snapshot and is a fault of the
\* file system, not of an upstream.)
C6_OutageWritesPlaceholders ==
    /\ []((pc # "load" /\ outage) => ENABLED Next)
    /\ []((pc = "write" /\ outage) => commodities = AllPlaceholders)
    /\ []((pc = "load" /\ lastOutage /\ file.kind = "snapshot")
             => file = File("snapshot", ToEntries(AllPlaceholders)))
    /\ [][(pc = "write" /\ outage /\ run' = run + 1)
             => /\ file' = File("snapshot", ToEntries(AllPlaceholders))
                /\ lastOutage']_vars

C6_Witness ==
    /\ pc = "load" /\ lastOutage /\ run >= 1
    /\ file.kind = "snapshot" /\ Len(file.commodities) = 5

\* C7: every price of an emitted snapshot is non-zero.
C7_PricesNonZero ==
    pc = "write" => \A i \in 1..Len(commodities) : commodities[i].price # Num(0)

\* C8: when the candle adapter yields a price and a previous price (and no
\* aggregator result was accepted), the quote is the candle price with
\* pct = percentChange(candle price, candle previous price), and the
\* live-quote adapter is not consulted.
C8_CandlePairResolves ==
    (Resolved /\ YahooPath(obs) /\ obs.candle[1] # None /\ obs.candle[2] # None)
        => /\ LastQuote = Quote(obs.name, obs.candle[1], pct(obs.candle[1], obs.candle[2]))
           /\ obs.live = NotCalled

C8_Witness ==
    /\ Resolved /\ obs.name = "WTI"
    /\ obs.candle = <<Num(84000), Num(80000)>>
    /\ Get(prev_prices, "WTI") = Num(83120)
    /\ LastQuote = Quote("WTI", Num(84000), Num(5000))

\* C9: when the candle adapter returns absence, the live-quote adapter
\* returns a price without a previous price and the store holds s for the
\* commodity, the quote is the live price with pct = percentChange(live
\* price, s), for each of the five commodities.
C9_LivePriceAgainstStore ==
    (/\ Resolved /\ YahooPath(obs)
     /\ obs.candle = <<None, None>>
     /\ obs.live[1] # None /\ obs.live[2] = None
     /\ Get(prev_prices, obs.name) # None)
        => LastQuote = Quote(obs.name, obs.live[1],
                             pct(obs.live[1], Get(prev_prices, obs.name)))

C9_Witness ==
    /\ Resolved /\ obs.name = "WTI"
    /\ obs.candle = <<None, None>>
    /\ obs.live = <<Num(84000), None>>
    /\ Get(prev_prices, "WTI") = Num(80000)
    /\ LastQuote = Quote("WTI", Num(84000), Num(5000))

\* The data.json is missing, unreadable, no JSON, of the wrong shape, or
\* lists an entry that is no object.
Malformed(f) ==
    \/ f.kind \in {"missing", "unreadable", "notjson", "notobject", "notlist"}
    \/ /\ f.kind = "snapshot"
       /\ \E i \in 1..Len(f.commodities) : f.commodities[i].kind # "dict"

\* C10: when the previous snapshot is missing, unreadable or malformed, the
\* loaded store is empty and every lookup of the run is absent, as on a
\* first-ever run.
C10_MalformedStoreIsEmpty ==
    (pc # "load" /\ Malformed(file)) =>
        /\ prev_prices = EmptyDict
        /\ \A i \in 1..5 : Get(prev_prices, Names[i]) = None

C10_Witness ==
    /\ pc = "brent"
    /\ file = File("snapshot", <<Entry("WTI", Num(80000)), Junk>>)
    /\ prev_prices = EmptyDict
    /\ obs.live = <<Num(84000), None>>
    /\ LastQuote = Quote("WTI", Num(84000), Num(0))

\* p is 100 * (c - b) / b rounded to a nearest hundredth: c, b and p are in
\* thousandths, so p is 10 * k with |k * b - 10000 * (c - b)| <= |b| / 2.
IsRoundedPercent(p, c, b) ==
    /\ p % 10 = 0
    /\ 2 * Abs((p \div 10) * b - 10000 * (c - b)) <= Abs(b)

\* C11: percentChange(curr, prev) returns 0.0 whenever prev is absent or
\* zero, whatever curr is (absent and non-numeric included), and it always
\* returns a value; for numbers curr and prev # 0 it returns
\* 100 * (curr - prev) / prev rounded to two decimals.
C11_PercentChange ==
    (call.fn = "pct" /\ call.ret # <<>>) =>
        LET curr == call.args[1]
            prev == call.args[2]
            ret  == call.ret[1]
        IN  /\ ret.t \in {"num", "nan"}
            /\ (prev = None \/ prev = Num(0)) => ret = Num(0)
            /\ (curr.t = "num" /\ prev.t = "num" /\ prev # Num(0))
                  => /\ ret.t = "num"
                     /\ IsRoundedPercent(ret.v, curr.v, prev.v)

C11_Witness ==
    call = [fn |-> "pct", args |-> <<Num(84000), Num(80000)>>, ret |-> <<Num(5000)>>]

\* C12: round2 is idempotent, round2(round2(x)) = round2(x) for every
\* number x, and round2 of a non-numeric or absent input is absent.
C12_Round2Idempotent ==
    (call.fn = "r2" /\ call.ret # <<>>) =>
        /\ (Len(call.ret) = 2 /\ call.args[1] # NaN) => call.ret[2] = call.ret[1]
        /\ call.args[1] \in {None, Str, Empty} => call.ret[1] = None
        /\ call.args[1].t = "num" =>
              /\ call.ret[1].t = "num"
              /\ call.ret[1].v % 10 = 0
              /\ 2 * Abs(call.ret[1].v - call.args[1].v) <= 10

C12_Witness ==
    call = [fn |-> "r2", args |-> <<Num(126)>>, ret |-> <<Num(130), Num(130)>>]

\* C13: the steel aggregator yields a result only when a credential is
\* configured; when it yields one, the quote is exactly its rounded price and
\* percentage and neither Yahoo adapter is called, whatever the store holds;
\* otherwise (no credential, failed call, no matching row) steel is resolved
\* from candle, live, store and placeholder as fetch_metal resolves a metal.
C13_SteelAggregator ==
    (Resolved /\ obs.name = "HRC Steel") =>
        /\ obs.te.found => obs.key
        /\ obs.te.found =>
              /\ LastQuote = Quote("HRC Steel", obs.te.price, obs.te.pct)
              /\ obs.te.price \in {r2(l) : l \in TeLasts \ {None}}
              /\ obs.te.pct \in {r2(Or(c, Num(0))) : c \in TeChgs}
              /\ obs.candle = NotCalled
              /\ obs.live = NotCalled
        /\ ~obs.te.found =>
              /\ YahooPath(obs)
              /\ LastQuote = fetch_metal("HRC Steel", Num(830000), Num(900),
                                         obs.candle, obs.live, prev_prices)

C13_Witness ==
    /\ Resolved /\ obs.name = "HRC Steel"
    /\ obs.key
    /\ obs.te = TeFound(Num(845500), Num(460))
    /\ Get(prev_prices, "HRC Steel") = Num(830000)
    /\ LastQuote = Quote("HRC Steel", Num(845500), Num(460))

\* C14: when an adapter yields a price, the emitted price is the price of
\* the first adapter in priority order (candle, then live) that yielded one;
\* the candle's previous price is the baseline whenever the candle yielded
\* one, and the live adapter's previous price is used only when the candle
\* yielded none.
C14_FirstAdapterPriceWins ==
    (Resolved /\ YahooPath(obs) /\ SomePrice(obs)) =>
        /\ LastQuote.price = AdapterPrice(obs)
        /\ obs.candle[2] # None
              => LastQuote.pct = pct(AdapterPrice(obs), obs.candle[2])
        /\ (obs.candle[2] = None /\ obs.live[2] # None)
              => LastQuote.pct = pct(AdapterPrice(obs), obs.live[2])

\* What the fetch_* call recorded in o returns when the store is pp.
Requote(o, pp) ==
    CASE o.name \in {"WTI", "Brent"} -> fetch_oil(o.name, o.candle, o.live, pp)
      [] o.name = "HRC Steel" -> fetch_hrc(o.te, o.candle, o.live, pp)
      [] o.name = "Copper" ->
            fetch_metal("Copper", Num(COPPER_PLACEHOLDER),
                        Num(COPPER_PLACEHOLDER_PCT), o.candle, o.live, pp)
      [] o.name = "Aluminum" ->
            fetch_metal("Aluminum", Num(ALUMINUM_PLACEHOLDER),
                        Num(ALUMINUM_PLACEHOLDER_PCT), o.candle, o.live, pp)

\* Store contents for one commodity: no entry, or a stored price.
StoredPrices == {Num(0), Num(4120), Num(80000), Num(830000)}
StoresFor(name) == {EmptyDict} \cup {Put(EmptyDict, name, v) : v \in StoredPrices}

\* main() is between load_previous_prices and the write of the snapshot.
Resolving == pc \notin {"load", "write"}

\* C15: the store influences a quote only when the adapters left a price and
\* no previous price: in every other case (price and previous price both
\* yielded, no price at all, aggregator result accepted) the quote is the
\* same for every store content; and no resolution step changes the store.
C15_StoreOnlyFillsBaseline ==
    /\ [](  (Resolved /\ ~PriceOnly(obs))
               => \A pp \in StoresFor(obs.name) : Requote(obs, pp) = LastQuote)
    /\ [][Resolving => prev_prices' = prev_prices]_vars

C15_Witness ==
    /\ Resolved /\ obs.name = "WTI"
    /\ obs.candle = <<None, None>>
    /\ obs.live = <<None, Num(80000)>>
    /\ Get(prev_prices, "WTI") = Num(80000)
    /\ LastQuote = Quote("WTI", Num(83120), Num(3900))

\* The Yahoo symbol of a commodity.
SymbolOf(name) ==
    CASE name = "WTI"       -> "CL=F"
      [] name = "Brent"     -> "BZ=F"
      [] name = "HRC Steel" -> "HRC=F"
      [] name = "Copper"    -> "HG=F"
      [] name = "Aluminum"  -> "ALI=F"

\* Both adapters called up front and their results merged by the fixed
\* priority: the candle's value where it has one, else the live one.
EagerMerge(candle, live) ==
    <<IF candle[1] # None THEN candle[1] ELSE live[1],
      IF candle[2] # None THEN candle[2] ELSE live[2]>>

\* The quote of the commodity of o when both adapters are called up front
\* and live is what the live adapter returns: the merged pair goes through
\* the rest of the resolution (store, placeholder, pct) as a pair that was
\* obtained in one piece.
EagerQuote(o, live, pp) ==
    Requote([o EXCEPT !.candle = <<None, None>>,
                      !.live = EagerMerge(o.candle, live)], pp)

\* The store with the entries of the other commodities removed.
OwnEntry(pp, name) ==
    IF Get(pp, name) = None THEN EmptyDict ELSE Put(EmptyDict, name, Get(pp, name))

\* C16: the quote of a commodity is a function of what the adapters return
\* for its symbol and of its store entry alone: calling both adapters up
\* front and merging by the fixed priority gives, for every result the live
\* adapter could have returned where the code did not call it, the quote the
\* lazy sequential evaluation emitted; the quotes and store entries of the
\* other commodities do not matter.
C16_EagerEqualsLazy ==
    (Resolved /\ YahooPath(obs)) =>
        \A l \in (IF obs.live = NotCalled THEN LiveResults[SymbolOf(obs.name)]
                  ELSE {obs.live}) :
            EagerQuote(obs, l, OwnEntry(prev_prices, obs.name)) = LastQuote

C16_Witness ==
    /\ Resolved /\ obs.name = "Aluminum"
    /\ obs.candle = <<Num(0), Num(2400000)>>
    /\ obs.live = NotCalled
    /\ <<Num(2400000), Num(2400000)>> \in LiveResults["ALI=F"]
    /\ Len(commodities) = 5
    /\ LastQuote = Quote("Aluminum", Num(0), Num(-100000))

\* C17: the candle adapter returns a price and a previous price or neither;
\* the live adapter is called exactly when the candle returned neither; and
\* a price without a previous price comes from the live adapter alone.
C17_CandleAllOrNothing ==
    (Resolved /\ YahooPath(obs)) =>
        /\ (obs.candle[1] = None) <=> (obs.candle[2] = None)
        /\ (obs.live # NotCalled) <=> (obs.candle = <<None, None>>)
        /\ PriceOnly(obs) => /\ obs.candle = <<None, None>>
                             /\ obs.live[1] # None
                             /\ obs.live[2] = None

C17_Witness ==
    /\ Resolved /\ obs.name = "Copper"
    /\ obs.candle = <<None, None>>
    /\ obs.live = <<Num(45000), None>>
    /\ PriceOnly(obs)

\* Row i of the answer is named HRC steel and has a Last, and the loop gets
\* to it: every row before it is an object that is not such a row.
Priced(row) ==
    /\ row.kind = "dict"
    /\ HasHrc(row.Name) /\ HasSteel(row.Name)
    /\ row.Last # None
FirstPriced(rows, i) ==
    /\ Priced(rows[i])
    /\ \A j \in 1..(i - 1) : rows[j].kind = "dict" /\ ~Priced(rows[j])

\* C18: with a credential, the first row named HRC steel that has a price is
\* accepted as final even when rows named HRC steel without a price precede
\* it (they are skipped); when its percentage is missing or zero the quote
\* is its rounded price with pct 0.0, and neither the candle result nor the
\* store entry enters the quote.
C18_RowWithoutPercentAccepted ==
    (call.fn = "fetch_hrc" /\ call.ret # <<>> /\ call.args[1] /\ call.args[2].ok) =>
        LET rows == call.args[2].rows IN
        \A i \in 1..Len(rows) :
            FirstPriced(rows, i) =>
                /\ call.ret[1].found
                /\ call.ret[1].price = r2(rows[i].Last)
                /\ call.ret[2].price = r2(rows[i].Last)
                /\ rows[i].chg \in {None, Empty, Num(0)}
                      => call.ret[2] = Quote("HRC Steel", r2(rows[i].Last), Num(0))

C18_Witness ==
    /\ call.fn = "fetch_hrc" /\ call.ret # <<>>
    /\ call.args = <<TRUE, TeAnswer(<<Row("HRC Steel", None, Num(456)),
                                      Row("HRC Steel", Num(845504), None)>>)>>
    /\ call.ret[2] = Quote("HRC Steel", Num(845500), Num(0))

====
